---- MODULE Spec2Model ----
(***************************************************************************)
(* The in-memory job queue of the transcription backend                    *)
(* (backend/src/services/queueService.js, class InMemoryQueue) together    *)
(* with the listeners QueueService.start and TranscriptionWorker register. *)
(*                                                                         *)
(* A worker loop is the closure processJob of startWorker.  It runs from   *)
(* one `await` to the next; every step below is the code between two       *)
(* awaits.  The promises the loop awaits are already settled, so a loop    *)
(* iteration runs in microtasks only: timer callbacks (poll timers, delay  *)
(* timers, retry timers) run when no loop is in the middle of an           *)
(* iteration.  Calls from outside (addJob, start, stop) may come from any  *)
(* other promise chain and so between any two steps.                       *)
(***************************************************************************)
EXTENDS Integers, Sequences, FiniteSets, Bags, TLC

\* ------------------------------------------------------------------ bounds
\* Spec: one job under every behaviour of listeners, handler and callers
MaxJobs == 1
MaxAttemptsArg == 3
Concurrency == 2
\* worker loops alive at once (a stopped pool can leave loops behind)
MaxChains == 3
\* SpecPair: two jobs, no listener other than the handler throws
PairJobs == 2
\* SpecBackoff: one job retried until the backoff cap is reached
BackoffAttempts == 7
\* SpecIds: jobs added with and without an id
IdJobs == 2
\* SpecDelay: jobs added with a delay
DelayJobs == 2
\* SpecPool: the scenario of five jobs on two loops
PoolJobs == 5
PoolConcurrency == 2
MaxRetries == 3
MaxFailJobCalls == 2
StopJobs == 2
SvcJobs == 1
MaxStarts == 2
RestartJobs == 2
RestartConcurrency == 1

\* --------------------------------------------------------------- constants
DefaultMaxAttempts == 3
BaseDelayMs == 500
BackoffBase == 1000
BackoffCap == 30000

Max(a, b) == IF a > b THEN a ELSE b
JobIx == 1..Max(Max(MaxJobs, PairJobs), PoolJobs)
NoJob == 0

\* jobData.maxAttempts as passed by a caller: 0 stands for every falsy value
\* (absent, 0), negative values are passed through by `||`.
MaxAttemptsInputs == (-1)..MaxAttemptsArg
\* jobData.delay as passed by a caller (0: absent or 0).
DelayInputs == {0, 5000}
\* what Date.now() reads at a call of addJob: two calls can read the same
\* millisecond
ClockInputs == {1001, 1002}
\* jobData.type as passed by a caller; the 'process-job' listener of
\* QueueService.start handles the type 'transcription' and no other
JobTypes == {"transcription", "other"}
Registered(t) == t = "transcription"
\* what a listener throws inside emit: nothing, an Error, or a value that
\* has no property `message` to read (null, undefined)
Thrown == {"none", "error", "null"}
\* what the 'process-job' listener is: an async function (it returns a
\* promise that settles later) or a function that throws inside emit, an
\* Error or null
Listeners == {"async", "throw", "throwNull"}
\* the 'process-job' listeners that throw nothing but an Error
ErrorListeners == {"async", "throw"}
EventKinds == {"job-added", "job-processing", "process-job", "job-completed",
               "job-failed", "job-retry", "job-failed-permanently"}

VARIABLES
    jobs,        \* this.jobs: the sequence of job records (by index) waiting
    job,         \* the job records created so far: index -> fields
    nJobs,       \* number of addJob calls so far
    processing,  \* this.processing: a set of job ids
    isRunning,   \* this.isRunning
    concurrency, \* this.concurrency
    workers,     \* this.workers: workerId+1 -> TRUE for a stored timeout, FALSE
                 \* for a hole of the array
    loop,        \* the live worker loops, a bag of [wid, pc, job, err, stored]:
                 \* err is what the awaited call of the loop threw (Thrown),
                 \* stored says that the loop's pending poll timeout is the
                 \* one this.workers[wid] holds
    addTimers,   \* jobs whose addJob delay timer is pending
    retryTimers, \* jobs whose retryJob backoff timer is pending
    running,     \* job -> number of async handler invocations not yet settled
    failed,      \* job -> number of handler invocations that threw or rejected
    last,        \* job -> how its latest settled handler invocation ended
    pub,         \* job -> event kind -> number of times the event was emitted for it
    backoffs,    \* job -> the delays retryJob computed for it, in order
    inserted,    \* job -> number of times it was pushed into this.jobs
    dequeued,    \* job -> number of times getJob returned it
    alive,       \* the node process is running
    unhandled,   \* a promise was rejected with nobody to handle it and the
                 \* process will exit on it once the promise jobs have run
    shutdown,    \* the shutdown handler has run its stop() and will call
                 \* process.exit(0)
    req,         \* the call of requestWithRetry: its position, locals and result
    tx,          \* the call of processTranscription and the transcription's row
    svc          \* the listeners registered on the singleton queue and the
                 \* counters of the worker's monitoring

\* the fields of the InMemoryQueue and what is observed of its jobs
queueVars == <<jobs, job, nJobs, processing, isRunning, concurrency, workers, loop,
               addTimers, retryTimers, running, failed, last, pub, backoffs, inserted,
               dequeued, alive,
                   unhandled, shutdown>>
\* what lives outside the queue
otherVars == <<req, tx, svc>>
vars == <<queueVars, otherVars>>

\* ----------------------------------------------------------------- helpers
Min(a, b) == IF a < b THEN a ELSE b

RECURSIVE Pow2(_)
Pow2(n) == IF n <= 0 THEN 1 ELSE 2 * Pow2(n - 1)

RECURSIVE Occurrences(_, _)
Occurrences(s, x) ==
    IF s = <<>> THEN 0
    ELSE (IF Head(s) = x THEN 1 ELSE 0) + Occurrences(Tail(s), x)

\* `a || b` on numbers: b when a is falsy (0 or absent)
OrElse(a, b) == IF a = 0 THEN b ELSE a

\* mutant: the backoff without its cap
BackoffUncapped(attempts) == BackoffBase * Pow2(attempts)
\* Math.min(1000 * Math.pow(2, job.attempts), 30000)
Backoff(attempts) == Min(BackoffBase * Pow2(attempts), BackoffCap)

\* job.attempts++
NextAttempts(a) == a + 1
\* mutant: the test written as attempts <= maxAttempts
ShouldRetryInclusive(a, m) == a <= m
\* job.attempts < job.maxAttempts
ShouldRetry(a, m) == a < m
\* mutant: unshift instead of push
PushFront(q, k) == <<k>> \o q
\* this.jobs.push(job)
Push(q, k) == Append(q, k)

\* arr[i] = timeout on a JavaScript array (index from 0): the holes up to i
\* stay holes and the length becomes at least i + 1
ArraySet(arr, i) ==
    [x \in 1..(IF Len(arr) > i + 1 THEN Len(arr) ELSE i + 1) |->
        IF x = i + 1 THEN TRUE ELSE IF x <= Len(arr) THEN arr[x] ELSE FALSE]

Loops == BagToSet(loop)
One(r) == SetToBag({r})

\* a loop is between two awaits of one iteration
Busy(r) == r.pc \in {"got", "invoked", "completed", "retried"}
\* no promise job of a worker loop is pending: the event loop can run a timer
Quiescent == \A r \in Loops : ~Busy(r)
\* the process runs: promise jobs (the steps of a loop's iteration, the
\* calls made from other promise chains, a handler that settles) run until
\* it exits
Live == alive
\* the event loop can run a task (a timer, a signal handler): the process
\* runs, no promise job of a loop is pending, and no unhandled rejection is
\* waiting, since node raises 'unhandledRejection' as soon as the promise
\* jobs have run, before the next task
TaskReady == Live /\ Quiescent /\ ~unhandled
NoCounts == [e \in EventKinds |-> 0]
Emit(k, e) == [pub EXCEPT ![k][e] = @ + 1]

\* ------------------------------------------------------------------- Init
\* the state after `new InMemoryQueue()` with config.queue.concurrency = n
Constructed(n) ==
    /\ concurrency = n
    /\ jobs = <<>>
    /\ job = [k \in JobIx |-> [id |-> 0, id0 |-> 0, type |-> "transcription",
                               attempts |-> 0, maxAttempts |-> 0, delay |-> 0,
                               delay0 |-> 0]]
    /\ nJobs = 0
    /\ processing = {}
    /\ isRunning = FALSE
    /\ workers = <<>>
    /\ loop = EmptyBag
    /\ addTimers = {}
    /\ retryTimers = {}
    /\ running = [k \in JobIx |-> 0]
    /\ failed = [k \in JobIx |-> 0]
    /\ last = [k \in JobIx |-> "none"]
    /\ pub = [k \in JobIx |-> NoCounts]
    /\ backoffs = [k \in JobIx |-> <<>>]
    /\ inserted = [k \in JobIx |-> 0]
    /\ dequeued = [k \in JobIx |-> 0]
    /\ alive = TRUE
    /\ unhandled = FALSE
    /\ shutdown = FALSE

\* lastError before a call of fn failed: undefined
NoError == [kind |-> "undefined", status |-> 0, call |-> 0]
\* no call of requestWithRetry was made yet
NoRequest ==
    [pc |-> "idle", retries |-> 0, attempt |-> 0, calls |-> 0, delay |-> 0,
     lastError |-> NoError, out |-> NoError, failures |-> <<>>]
\* the row of the transcription as the upload route inserts it, and no call
\* of the 'transcription' handler yet
NoTranscription ==
    [pc |-> "idle", status |-> "UPLOADED", error_message |-> "none", thrown |-> "none"]
\* QueueService.start was not called yet: it registered no listener
NoService == [handlers |-> 0]
\* nothing but the queue was used
QueueOnly == req = NoRequest /\ tx = NoTranscription /\ svc = NoService

Init == Constructed(Concurrency) /\ QueueOnly

\* ---------------------------------------------------------------- addJob
\* mutant: addJob pushes the job at once whatever its delay
ListAfterAddNow(q, k, d) == Push(q, k)
\* this.jobs when addJob returns: a job with a delay is not pushed by addJob
\* but by its timer
ListAfterAdd(q, k, d) == IF d > 0 THEN q ELSE Push(q, k)

\* jobData.id || Date.now().toString(): the id passed, or the clock's
\* reading when none is passed (0 stands for absent)
JobId(i, now) == OrElse(i, now)

\* addJob(jobData): m = jobData.maxAttempts, d = jobData.delay, i =
\* jobData.id, t = jobData.type; now is what Date.now() reads.
AddJob(m, d, i, t, now) ==
    /\ Live
    /\ nJobs < Cardinality(JobIx)
    /\ LET k == nJobs + 1 IN
       /\ nJobs' = k
       /\ job' = [job EXCEPT ![k] = [id |-> JobId(i, now), id0 |-> i, type |-> t,
                                     attempts |-> 0,
                                     maxAttempts |-> OrElse(m, DefaultMaxAttempts),
                                     delay |-> d, delay0 |-> d]]
       /\ jobs' = ListAfterAdd(jobs, k, d)
       /\ IF d > 0
          THEN /\ addTimers' = addTimers \cup {k}
               /\ UNCHANGED <<pub, inserted>>
          ELSE /\ inserted' = [inserted EXCEPT ![k] = @ + 1]
               /\ pub' = Emit(k, "job-added")
               /\ UNCHANGED addTimers
    /\ UNCHANGED <<processing, isRunning, concurrency, workers, loop, retryTimers, running,
                   failed, last, backoffs, dequeued, alive,
                   unhandled, shutdown>>

\* the setTimeout callback of a delayed addJob
AddTimerFire(k, thr) ==
    /\ TaskReady
    /\ k \in addTimers
    /\ addTimers' = addTimers \ {k}
    /\ jobs' = Push(jobs, k)
    /\ inserted' = [inserted EXCEPT ![k] = @ + 1]
    /\ pub' = Emit(k, "job-added")
    \* a listener that throws inside a timer callback is an uncaught exception
    /\ alive' = ~thr
    /\ UNCHANGED <<unhandled, shutdown, job, nJobs, processing, isRunning, concurrency, workers, loop, retryTimers,
                   running, failed, last, backoffs, dequeued>>

\* the setTimeout callback of retryJob: this.jobs.push(job)
RetryTimerFire(k) ==
    /\ TaskReady
    /\ k \in retryTimers
    /\ retryTimers' = retryTimers \ {k}
    /\ jobs' = Push(jobs, k)
    /\ inserted' = [inserted EXCEPT ![k] = @ + 1]
    /\ UNCHANGED <<job, nJobs, processing, isRunning, concurrency, workers, loop, addTimers,
                   running, failed, last, pub, backoffs, dequeued, alive,
                   unhandled, shutdown>>

\* ---------------------------------------------------------------- getJob
\* the record getJob returns from the list q (NoJob for null)
GetJobResult(q) == IF Len(q) = 0 THEN NoJob ELSE Head(q)
\* mutant: getJob reads the oldest record and leaves it in the list
GetJobPeek(q) == q
\* this.jobs after getJob: shift() removes the oldest record
GetJobRest(q) == IF Len(q) = 0 THEN q ELSE Tail(q)

\* the record the n-th of several getJob calls in a row returns (n from 1)
RECURSIVE NthGetJob(_, _)
NthGetJob(q, n) ==
    IF n <= 1 THEN GetJobResult(q) ELSE NthGetJob(GetJobRest(q), n - 1)
RECURSIVE GetJobRestN(_, _)
GetJobRestN(q, n) == IF n <= 0 THEN q ELSE GetJobRestN(GetJobRest(q), n - 1)

\* ----------------------------------------------------------- start, stop
\* the loop startWorker(w) leaves at its first await, `await this.getJob()`
StartWorker(w) ==
    [wid |-> w, pc |-> "got", job |-> NthGetJob(jobs, w + 1), err |-> "none",
     stored |-> FALSE]

RECURSIVE StartWorkers(_)
StartWorkers(n) ==
    IF n <= 0 THEN EmptyBag ELSE StartWorkers(n - 1) (+) One(StartWorker(n - 1))

\* mutant: start() without the test of isRunning
StartAlways == FALSE
\* start(): `if (this.isRunning) return`
StartNoOp == isRunning

\* the jobs the getJob calls of start() return
StartGot == {NthGetJob(jobs, n) : n \in 1..concurrency} \ {NoJob}
\* the fields of the queue after start()
StartedIsRunning == IF StartNoOp THEN isRunning ELSE TRUE
StartedLoops == IF StartNoOp THEN loop ELSE loop (+) StartWorkers(concurrency)
StartedJobs == IF StartNoOp THEN jobs ELSE GetJobRestN(jobs, concurrency)
StartedProcessing ==
    IF StartNoOp THEN processing ELSE processing \cup {job[k].id : k \in StartGot}
StartedDequeued ==
    IF StartNoOp THEN dequeued
    ELSE [k \in JobIx |-> IF k \in StartGot THEN dequeued[k] + 1 ELSE dequeued[k]]

\* start(): a no-op when running; otherwise startWorker(i) for each i, and
\* each startWorker runs processJob up to its first await, that is through
\* the isRunning test and the body of getJob.
Start ==
    /\ Live
    /\ ~StartNoOp => BagCardinality(loop) + concurrency <= MaxChains
    /\ isRunning' = StartedIsRunning
    /\ loop' = StartedLoops
    /\ jobs' = StartedJobs
    /\ processing' = StartedProcessing
    /\ dequeued' = StartedDequeued
    /\ UNCHANGED <<job, nJobs, concurrency, workers, addTimers, retryTimers,
                   running, failed, last, pub, backoffs, inserted, alive,
                   unhandled, shutdown>>

\* the loops clearTimeout leaves alive: those whose pending timeout is not
\* among the stored ones
StopLoops ==
    LET kept == {r \in Loops : ~(r.pc = "timer" /\ r.stored)}
    IN [r \in kept |-> loop[r]]

\* mutant: stop() empties the jobs list
StoppedJobsCleared == <<>>
\* this.jobs when stop() returns: stop() does not touch the list
StoppedJobs == jobs

\* stop(): clearTimeout on every stored timeout, then this.workers = []
Stop ==
    /\ Live
    /\ isRunning' = FALSE
    /\ loop' = StopLoops
    /\ workers' = <<>>
    /\ jobs' = StoppedJobs
    /\ UNCHANGED <<job, nJobs, processing, concurrency, addTimers,
                   retryTimers, running, failed, last, pub, backoffs, inserted,
                   dequeued, alive,
                   unhandled, shutdown>>

\* failJob(jobId, error), called by the embedding program with the id of job
\* k: processing.delete, then emit 'job-failed'.  Nothing in the queue calls
\* it.  When a listener throws, or when error is null (the log line reads
\* error.message after the emit), the promise it returns rejects to the
\* caller; the queue's state is the same.
FailJob(k) ==
    /\ Live
    /\ k \in 1..nJobs
    /\ pub[k]["job-failed"] < MaxFailJobCalls
    /\ processing' = processing \ {job[k].id}
    /\ pub' = Emit(k, "job-failed")
    /\ UNCHANGED <<jobs, job, nJobs, isRunning, concurrency, workers, loop,
                   addTimers, retryTimers, running, failed, last, backoffs,
                   inserted, dequeued, alive,
                   unhandled, shutdown>>

\* ------------------------------------------------------- the worker loop
\* the bag b after this.workers[w] is overwritten: a loop whose timeout was
\* stored there is no longer reachable by stop()
Overwritten(b, w) ==
    LET drop(r) == IF r.wid = w THEN [r EXCEPT !.stored = FALSE] ELSE r
        img == {drop(r) : r \in BagToSet(b)}
    IN [y \in img |->
          (IF y \in BagToSet(b) THEN b[y] ELSE 0)
          + (IF y.wid = w /\ ~y.stored /\ [y EXCEPT !.stored = TRUE] \in BagToSet(b)
             THEN b[[y EXCEPT !.stored = TRUE]] ELSE 0)]

\* loop r moves on to the record r2
Moved(r, r2) == (loop (-) One(r)) (+) One(r2)

\* mutant: the loop ends without scheduling its next poll
ScheduleNever(r) ==
    /\ loop' = loop (-) One(r)
    /\ workers' = workers
\* setTimeout(processJob, pollInterval); this.workers[workerId] = timeout
Schedule(r) ==
    /\ loop' = Overwritten(loop (-) One(r), r.wid)
               (+) One([r EXCEPT !.pc = "timer", !.job = NoJob, !.err = "none",
                                 !.stored = TRUE])
    /\ workers' = ArraySet(workers, r.wid)

\* the body of retryJob(job, error) from the counters p; thrF: what a
\* 'job-failed-permanently' listener throws, which leaves retryJob before
\* processing.delete
RetryJob(r, k, p, thrF) ==
    LET a == NextAttempts(job[k].attempts)
        again == ShouldRetry(a, job[k].maxAttempts)
        thrown == IF again THEN "none" ELSE thrF
    IN /\ job' = [job EXCEPT ![k].attempts = a,
                             ![k].delay = IF again THEN Backoff(a) ELSE @]
       /\ retryTimers' = IF again THEN retryTimers \cup {k} ELSE retryTimers
       /\ backoffs' = IF again THEN [backoffs EXCEPT ![k] = Append(@, Backoff(a))]
                      ELSE backoffs
       /\ pub' = IF again THEN p
                 ELSE [p EXCEPT ![k]["job-failed-permanently"] = @ + 1]
       /\ processing' = IF thrown # "none" THEN processing
                        ELSE processing \ {job[k].id}
       /\ loop' = Moved(r, [r EXCEPT !.pc = "retried", !.err = thrown])

\* the poll timer of a loop fires: processJob runs up to `await this.getJob()`
Tick(r) ==
    /\ TaskReady
    /\ r.pc = "timer"
    /\ IF ~isRunning
       THEN /\ loop' = loop (-) One(r)
            /\ UNCHANGED <<jobs, processing, dequeued>>
       ELSE LET k == GetJobResult(jobs) IN
            /\ loop' = Moved(r, [r EXCEPT !.pc = "got", !.job = k, !.stored = FALSE])
            /\ jobs' = GetJobRest(jobs)
            /\ processing' = IF k = NoJob THEN processing
                             ELSE processing \cup {job[k].id}
            /\ dequeued' = IF k = NoJob THEN dequeued
                           ELSE [dequeued EXCEPT ![k] = @ + 1]
    /\ UNCHANGED <<job, nJobs, isRunning, concurrency, workers, addTimers,
                   retryTimers, running, failed, last, pub, backoffs, inserted, alive,
                   unhandled, shutdown>>

\* the 'process-job' listeners that emit calls, one after the other: those
\* QueueService.start registered on the singleton queue, one per call, or
\* the one listener of a program that uses the InMemoryQueue by itself
ListenerCount == IF svc.handlers = 0 THEN 1 ELSE svc.handlers

\* after `await this.getJob()`: nothing to do, or emit 'job-processing' and
\* call processJob, which emits 'process-job'.  thrP: what a 'job-processing'
\* listener throws; o: what the 'process-job' listener is.  The catch block
\* reads error.message before it calls retryJob: on a thrown null that read
\* throws, and the outer catch goes on to the next poll without retryJob.
\* For a job of a type that is not registered the 'process-job' listener
\* returns without calling a handler (h is "skip").
AfterGet(r, thrP, o, thrF) ==
    /\ Live
    /\ r.pc = "got"
    /\ LET k == r.job IN
       IF k = NoJob
       THEN /\ Schedule(r)
            /\ UNCHANGED <<job, processing, retryTimers, running, failed, last,
                           pub, backoffs>>
       ELSE IF thrP = "error"
       THEN /\ RetryJob(r, k, Emit(k, "job-processing"), thrF)
            /\ UNCHANGED <<workers, running, failed, last>>
       ELSE IF thrP = "null"
       THEN /\ pub' = Emit(k, "job-processing")
            /\ Schedule(r)
            /\ UNCHANGED <<job, processing, retryTimers, running, failed, last,
                           backoffs>>
       ELSE LET h == IF Registered(job[k].type) THEN o ELSE "skip" IN
            /\ pub' = [pub EXCEPT ![k]["job-processing"] = @ + 1,
                                  ![k]["process-job"] = @ + 1]
            /\ running' = IF h = "async" THEN [running EXCEPT ![k] = @ + ListenerCount]
                          ELSE running
            /\ failed' = IF h \in {"throw", "throwNull"}
                         THEN [failed EXCEPT ![k] = @ + 1] ELSE failed
            /\ last' = IF h \in {"throw", "throwNull"}
                       THEN [last EXCEPT ![k] = "failed"] ELSE last
            /\ loop' = Moved(r, [r EXCEPT !.pc = "invoked",
                                          !.err = IF h = "throw" THEN "error"
                                                  ELSE IF h = "throwNull" THEN "null"
                                                  ELSE "none"])
            /\ UNCHANGED <<job, processing, workers, retryTimers, backoffs>>
    /\ UNCHANGED <<jobs, nJobs, isRunning, concurrency, addTimers, inserted,
                   dequeued, alive,
                   unhandled, shutdown>>

\* the body of completeJob(jobId); thrC: what a 'job-completed' listener throws
CompleteJob(r, k, thrC) ==
    /\ processing' = processing \ {job[k].id}
    /\ pub' = Emit(k, "job-completed")
    /\ loop' = Moved(r, [r EXCEPT !.pc = "completed", !.err = thrC])

\* after `await this.processJob(job)`: completeJob, or the catch block
AfterProcess(r, thrC, thrF) ==
    /\ Live
    /\ r.pc = "invoked"
    /\ IF r.err = "error"
       THEN /\ RetryJob(r, r.job, pub, thrF)
            /\ UNCHANGED workers
       ELSE IF r.err = "null"
       THEN /\ Schedule(r)
            /\ UNCHANGED <<job, processing, retryTimers, pub, backoffs>>
       ELSE /\ CompleteJob(r, r.job, thrC)
            /\ UNCHANGED <<job, workers, retryTimers, backoffs>>
    /\ UNCHANGED <<jobs, nJobs, isRunning, concurrency, addTimers,
                   running, failed, last, inserted, dequeued, alive,
                   unhandled, shutdown>>

\* after `await this.completeJob(job.id)`: the next poll, or the catch block
AfterComplete(r, thrF) ==
    /\ Live
    /\ r.pc = "completed"
    /\ IF r.err = "error"
       THEN /\ RetryJob(r, r.job, pub, thrF)
            /\ UNCHANGED workers
       ELSE /\ Schedule(r)
            /\ UNCHANGED <<job, processing, retryTimers, pub, backoffs>>
    /\ UNCHANGED <<jobs, nJobs, isRunning, concurrency, addTimers, running,
                   failed, last, inserted, dequeued, alive,
                   unhandled, shutdown>>

\* after `await this.retryJob(job, error)`, resolved or rejected: the next
\* poll.  When retryJob rejected with null the outer catch throws on
\* error.message: processJob ends there, without a next poll, and its
\* promise is an unhandled rejection (exit: the process exits on it).  Node
\* raises 'unhandledRejection' only when the promise jobs have run, so the
\* exit is a later step (ProcessExit).
AfterRetry(r, exit) ==
    /\ Live
    /\ r.pc = "retried"
    /\ IF r.err = "null"
       THEN /\ loop' = loop (-) One(r)
            /\ unhandled' = (unhandled \/ exit)
            /\ UNCHANGED workers
       ELSE /\ Schedule(r)
            /\ UNCHANGED unhandled
    /\ UNCHANGED <<jobs, job, nJobs, processing, isRunning, concurrency,
                   addTimers, retryTimers, running, failed, last, pub, backoffs,
                   inserted, dequeued, alive, shutdown>>

\* ------------------------------------------------- the 'process-job' listener
\* an invocation of the async listener for job k settles: it resolves (ok)
\* or rejects.  Nothing awaits the promise, so a rejection is an unhandled
\* rejection: the worker process exits on it (transcriptionWorker.js), other
\* builds only warn.  The exit is a later step (ProcessExit): node raises
\* 'unhandledRejection' when the promise jobs have run.
HandlerSettle(k, ok, exit) ==
    /\ Live
    /\ running[k] > 0
    /\ running' = [running EXCEPT ![k] = @ - 1]
    /\ failed' = IF ok THEN failed ELSE [failed EXCEPT ![k] = @ + 1]
    /\ last' = [last EXCEPT ![k] = IF ok THEN "ok" ELSE "failed"]
    /\ unhandled' = (unhandled \/ (~ok /\ exit))
    /\ UNCHANGED <<jobs, job, nJobs, processing, isRunning, concurrency, workers,
                   loop, addTimers, retryTimers, pub, backoffs, inserted,
                   dequeued, alive, shutdown>>

\* gracefulShutdown of transcriptionWorker.js:110-120 (the handler of
\* api/index.js:71-88 likewise), run as a task of its own on SIGTERM: it
\* awaits the worker's stop() and then calls process.exit(0) (ProcessExit).
\* stopping: this.isRunning of the worker.  stop() returns at once when the
\* worker is not running (it was stopped before, whoever started the queue
\* again); otherwise it awaits QueueService.stop(), which is queue.stop().
\* The exit comes some promise jobs later (in api/index.js after
\* database.end()): calls from other chains, the loops, pending handlers
\* and the timers stop() does not clear can run in between.
GracefulShutdown(stopping) ==
    /\ TaskReady
    /\ isRunning' = IF stopping THEN FALSE ELSE isRunning
    /\ loop' = IF stopping THEN StopLoops ELSE loop
    /\ workers' = IF stopping THEN <<>> ELSE workers
    /\ jobs' = IF stopping THEN StoppedJobs ELSE jobs
    /\ shutdown' = TRUE
    /\ UNCHANGED <<job, nJobs, processing, concurrency, addTimers,
                   retryTimers, running, failed, last, pub, backoffs, inserted,
                   dequeued, alive, unhandled>>

\* the process exits.  On a pending unhandled rejection: node raises
\* 'unhandledRejection' once no promise job is left (process.exit(1) in
\* transcriptionWorker.js, node's default likewise).  In the shutdown
\* handler: process.exit(0) runs when the awaits of the handler are over,
\* whatever the worker loops are doing.  Nothing waits for a loop in the
\* middle of an iteration, for the handler invocations that have not
\* settled or for the timers that are pending.
ProcessExit ==
    /\ alive
    /\ (unhandled /\ Quiescent) \/ shutdown
    /\ alive' = FALSE
    /\ UNCHANGED <<jobs, job, nJobs, processing, isRunning, concurrency, workers,
                   loop, addTimers, retryTimers, running, failed, last, pub,
                   backoffs, inserted, dequeued, unhandled, shutdown>>

\* ------------------------------------------------------------------- Next
\* the id a caller passes for a new job: one used before, or a new one
IdInputs == {job[x].id : x \in 1..nJobs} \cup {nJobs + 1}

\* what the listeners do, <<thrP, o, thrF>>, when loop r goes on after
\* getJob, each behaviour that the code can tell apart once: no listener is
\* called when getJob returned nothing, the 'process-job' listener is not
\* called when a 'job-processing' listener threw, and a
\* 'job-failed-permanently' listener is called only from retryJob
AfterGetCases(r) ==
    {c \in Thrown \X Listeners \X Thrown :
        /\ r.job = NoJob => c[1] = "none"
        /\ (r.job = NoJob \/ c[1] # "none") => c[2] = "async"
        /\ c[1] # "error" => c[3] = "none"}

\* One job, every behaviour of the callers, the listeners and the handler.
Next ==
    \/ \E m \in MaxAttemptsInputs, d \in DelayInputs, i \in IdInputs, t \in JobTypes,
          now \in ClockInputs :
          nJobs < MaxJobs /\ AddJob(m, d, i, t, now) /\ UNCHANGED otherVars
    \/ \E k \in JobIx, thr \in BOOLEAN : AddTimerFire(k, thr) /\ UNCHANGED otherVars
    \/ \E k \in JobIx : RetryTimerFire(k) /\ UNCHANGED otherVars
    \/ Start /\ UNCHANGED otherVars
    \/ Stop /\ UNCHANGED otherVars
    \/ \E k \in JobIx : FailJob(k) /\ UNCHANGED otherVars
    \/ \E r \in Loops : Tick(r) /\ UNCHANGED otherVars
    \/ \E r \in Loops : \E c \in AfterGetCases(r) :
          AfterGet(r, c[1], c[2], c[3]) /\ UNCHANGED otherVars
    \/ \E r \in Loops, thrC \in Thrown, thrF \in Thrown : AfterProcess(r, thrC, thrF)
          /\ UNCHANGED otherVars
    \/ \E r \in Loops, thrF \in Thrown : AfterComplete(r, thrF) /\ UNCHANGED otherVars
    \/ \E r \in Loops, exit \in BOOLEAN : AfterRetry(r, exit) /\ UNCHANGED otherVars
    \/ \E k \in JobIx, ok \in BOOLEAN, exit \in BOOLEAN : HandlerSettle(k, ok, exit)
          /\ UNCHANGED otherVars
    \/ ProcessExit /\ UNCHANGED otherVars

Spec == Init /\ [][Next]_vars

\* Two jobs with maxAttempts = 2, with or without a delay; the 'process-job'
\* listener throws or is async and resolves; no other listener throws.
PairNext ==
    \/ \E d \in DelayInputs, now \in ClockInputs :
          nJobs < PairJobs /\ AddJob(2, d, nJobs + 1, "transcription", now)
          /\ UNCHANGED otherVars
    \/ \E k \in JobIx : AddTimerFire(k, FALSE) /\ UNCHANGED otherVars
    \/ \E k \in JobIx : RetryTimerFire(k) /\ UNCHANGED otherVars
    \/ Start /\ UNCHANGED otherVars
    \/ Stop /\ UNCHANGED otherVars
    \/ \E r \in Loops : Tick(r) /\ UNCHANGED otherVars
    \/ \E r \in Loops, o \in ErrorListeners : AfterGet(r, "none", o, "none")
          /\ UNCHANGED otherVars
    \/ \E r \in Loops : AfterProcess(r, "none", "none") /\ UNCHANGED otherVars
    \/ \E r \in Loops : AfterComplete(r, "none") /\ UNCHANGED otherVars
    \/ \E r \in Loops : AfterRetry(r, FALSE) /\ UNCHANGED otherVars
    \/ \E k \in JobIx : HandlerSettle(k, TRUE, FALSE) /\ UNCHANGED otherVars

SpecPair == Init /\ [][PairNext]_vars

\* One job whose 'process-job' listener throws or resolves, with maxAttempts
\* up to BackoffAttempts; the pool is started once and never stopped.
BackoffNext ==
    \/ \E m \in 1..BackoffAttempts, now \in ClockInputs :
          nJobs < 1 /\ AddJob(m, 0, 1, "transcription", now) /\ UNCHANGED otherVars
    \/ \E k \in JobIx : RetryTimerFire(k) /\ UNCHANGED otherVars
    \/ Start /\ UNCHANGED otherVars
    \/ \E r \in Loops : Tick(r) /\ UNCHANGED otherVars
    \/ \E r \in Loops, o \in ErrorListeners : AfterGet(r, "none", o, "none")
          /\ UNCHANGED otherVars
    \/ \E r \in Loops : AfterProcess(r, "none", "none") /\ UNCHANGED otherVars
    \/ \E r \in Loops : AfterComplete(r, "none") /\ UNCHANGED otherVars
    \/ \E r \in Loops : AfterRetry(r, FALSE) /\ UNCHANGED otherVars
    \/ \E k \in JobIx : HandlerSettle(k, TRUE, FALSE) /\ UNCHANGED otherVars

SpecBackoff == Init /\ [][BackoffNext]_vars

\* One job of a registered or an unregistered type, maxAttempts 1 or 2; the
\* 'process-job' listener throws an Error or is async and resolves or
\* rejects (the process survives the rejection); no other listener throws.
TypeNext ==
    \/ \E m \in 1..2, t \in JobTypes, now \in ClockInputs :
          nJobs < 1 /\ AddJob(m, 0, 1, t, now) /\ UNCHANGED otherVars
    \/ \E k \in JobIx : RetryTimerFire(k) /\ UNCHANGED otherVars
    \/ Start /\ UNCHANGED otherVars
    \/ Stop /\ UNCHANGED otherVars
    \/ \E r \in Loops : Tick(r) /\ UNCHANGED otherVars
    \/ \E r \in Loops, o \in ErrorListeners : AfterGet(r, "none", o, "none")
          /\ UNCHANGED otherVars
    \/ \E r \in Loops : AfterProcess(r, "none", "none") /\ UNCHANGED otherVars
    \/ \E r \in Loops : AfterComplete(r, "none") /\ UNCHANGED otherVars
    \/ \E r \in Loops : AfterRetry(r, FALSE) /\ UNCHANGED otherVars
    \/ \E k \in JobIx, ok \in BOOLEAN : HandlerSettle(k, ok, FALSE) /\ UNCHANGED otherVars

SpecType == Init /\ [][TypeNext]_vars

\* DelayJobs jobs added with or without a delay to a pool that is started
\* and stopped at will; the handler is async and resolves; no listener
\* throws.  start() and stop() are called from tasks of their own (the
\* server start-up, a signal handler), which node runs when no promise job
\* of a loop is pending.  Node runs the pending promise job of the loop that
\* holds a job, some expired poll timer, and every delay timer: a timer can
\* fire whenever no loop is in the middle of an iteration, which happens
\* again and again.
DelayNext ==
    \/ \E d \in DelayInputs, now \in ClockInputs :
          nJobs < DelayJobs /\ AddJob(1, d, nJobs + 1, "transcription", now)
          /\ UNCHANGED otherVars
    \/ \E k \in JobIx : AddTimerFire(k, FALSE) /\ UNCHANGED otherVars
    \/ Quiescent /\ Start /\ UNCHANGED otherVars
    \/ Quiescent /\ Stop /\ UNCHANGED otherVars
    \/ \E r \in Loops : Tick(r) /\ UNCHANGED otherVars
    \/ \E r \in Loops : AfterGet(r, "none", "async", "none") /\ UNCHANGED otherVars
    \/ \E r \in Loops : AfterProcess(r, "none", "none") /\ UNCHANGED otherVars
    \/ \E r \in Loops : AfterComplete(r, "none") /\ UNCHANGED otherVars
    \/ \E k \in JobIx : HandlerSettle(k, TRUE, FALSE) /\ UNCHANGED otherVars

\* a step of the iteration of loop r
DelayStep(r) ==
    /\ \/ AfterGet(r, "none", "async", "none")
       \/ AfterProcess(r, "none", "none")
       \/ AfterComplete(r, "none")
    /\ UNCHANGED otherVars

DelayFairness ==
    /\ \A k \in 0..DelayJobs : WF_vars(\E r \in Loops : r.job = k /\ DelayStep(r))
    /\ WF_vars(\E r \in Loops : Tick(r) /\ UNCHANGED otherVars)
    /\ \A k \in 1..DelayJobs : SF_vars(AddTimerFire(k, FALSE) /\ UNCHANGED otherVars)

SpecDelay == Init /\ [][DelayNext]_vars /\ DelayFairness

\* IdJobs jobs added with an id of the caller's or without one, maxAttempts
\* 2, to a pool that is started once; the 'process-job' listener throws an
\* Error or is async and resolves; no other listener throws.
IdNext ==
    \/ \E i \in {0, 7}, now \in ClockInputs :
          nJobs < IdJobs /\ AddJob(2, 0, i, "transcription", now) /\ UNCHANGED otherVars
    \/ \E k \in JobIx : RetryTimerFire(k) /\ UNCHANGED otherVars
    \/ Start /\ UNCHANGED otherVars
    \/ \E r \in Loops : Tick(r) /\ UNCHANGED otherVars
    \/ \E r \in Loops, o \in ErrorListeners : AfterGet(r, "none", o, "none")
          /\ UNCHANGED otherVars
    \/ \E r \in Loops : AfterProcess(r, "none", "none") /\ UNCHANGED otherVars
    \/ \E r \in Loops : AfterComplete(r, "none") /\ UNCHANGED otherVars
    \/ \E r \in Loops : AfterRetry(r, FALSE) /\ UNCHANGED otherVars
    \/ \E k \in JobIx : HandlerSettle(k, TRUE, FALSE) /\ UNCHANGED otherVars

SpecIds == Init /\ [][IdNext]_vars

\* The pool of PoolConcurrency loops and PoolJobs jobs added without delay;
\* the 'process-job' listener is async and resolves; no listener throws; the
\* pool is never stopped.
InitPool == Constructed(PoolConcurrency) /\ QueueOnly

PoolNext ==
    \/ \E now \in ClockInputs :
          nJobs < PoolJobs /\ AddJob(0, 0, nJobs + 1, "transcription", now)
          /\ UNCHANGED otherVars
    \/ Start /\ UNCHANGED otherVars
    \/ \E r \in Loops : Tick(r) /\ UNCHANGED otherVars
    \/ \E r \in Loops : AfterGet(r, "none", "async", "none") /\ UNCHANGED otherVars
    \/ \E r \in Loops : AfterProcess(r, "none", "none") /\ UNCHANGED otherVars
    \/ \E r \in Loops : AfterComplete(r, "none") /\ UNCHANGED otherVars
    \/ \E k \in JobIx : HandlerSettle(k, TRUE, FALSE) /\ UNCHANGED otherVars

\* node runs every pending promise job and every expired timer, and a
\* handler that succeeds returns
PoolFairness ==
    /\ WF_vars(\E r \in Loops : Tick(r) /\ UNCHANGED otherVars)
    /\ WF_vars(\E r \in Loops : AfterGet(r, "none", "async", "none") /\ UNCHANGED otherVars)
    /\ WF_vars(\E r \in Loops : AfterProcess(r, "none", "none") /\ UNCHANGED otherVars)
    /\ WF_vars(\E r \in Loops : AfterComplete(r, "none") /\ UNCHANGED otherVars)
    /\ WF_vars(\E k \in JobIx : HandlerSettle(k, TRUE, FALSE) /\ UNCHANGED otherVars)

SpecPool == InitPool /\ [][PoolNext]_vars /\ PoolFairness

\* The two jobs of SpecPair under a fair event loop: node runs the pending
\* promise job of the loop that holds a job and some expired poll timer, and
\* a handler that was invoked returns.  Calls of start and stop come whenever
\* the callers like.
\* one step of the loop r, whichever its position
LoopStep(r) ==
    /\ \/ Tick(r)
       \/ \E o \in ErrorListeners : AfterGet(r, "none", o, "none")
       \/ AfterProcess(r, "none", "none")
       \/ AfterComplete(r, "none")
       \/ AfterRetry(r, FALSE)
    /\ UNCHANGED otherVars

PairFairness ==
    /\ \A k \in 1..PairJobs : WF_vars(\E r \in Loops : r.job = k /\ LoopStep(r))
    /\ WF_vars(\E r \in Loops : r.pc = "got" /\ r.job = NoJob /\ LoopStep(r))
    /\ WF_vars(\E r \in Loops : Tick(r) /\ UNCHANGED otherVars)
    /\ WF_vars(\E k \in JobIx : HandlerSettle(k, TRUE, FALSE) /\ UNCHANGED otherVars)

SpecPairFair == Init /\ [][PairNext]_vars /\ PairFairness

\* The two jobs of SpecPair, added without delay, in a process that can be
\* shut down: the 'process-job' listener throws an Error or is async and
\* resolves or rejects, the process exits on an unhandled rejection or only
\* warns, stop() and start() are called whenever the callers like, and
\* SIGTERM runs the shutdown handler.  The event loop is fair as in
\* SpecPairFair, every invocation of the handler settles one way or the
\* other, and a process that is about to exit does exit.
GracefulNext ==
    \/ \E now \in ClockInputs :
          nJobs < PairJobs /\ AddJob(2, 0, nJobs + 1, "transcription", now)
          /\ UNCHANGED otherVars
    \/ \E k \in JobIx : RetryTimerFire(k) /\ UNCHANGED otherVars
    \/ Start /\ UNCHANGED otherVars
    \/ Stop /\ UNCHANGED otherVars
    \/ \E stopping \in BOOLEAN : GracefulShutdown(stopping) /\ UNCHANGED otherVars
    \/ \E r \in Loops : Tick(r) /\ UNCHANGED otherVars
    \/ \E r \in Loops, o \in ErrorListeners : AfterGet(r, "none", o, "none")
          /\ UNCHANGED otherVars
    \/ \E r \in Loops : AfterProcess(r, "none", "none") /\ UNCHANGED otherVars
    \/ \E r \in Loops : AfterComplete(r, "none") /\ UNCHANGED otherVars
    \/ \E r \in Loops : AfterRetry(r, FALSE) /\ UNCHANGED otherVars
    \/ \E k \in JobIx, ok \in BOOLEAN, exit \in BOOLEAN : HandlerSettle(k, ok, exit)
          /\ UNCHANGED otherVars
    \/ ProcessExit /\ UNCHANGED otherVars

GracefulFairness ==
    /\ \A k \in 1..PairJobs : WF_vars(\E r \in Loops : r.job = k /\ LoopStep(r))
    /\ WF_vars(\E r \in Loops : r.pc = "got" /\ r.job = NoJob /\ LoopStep(r))
    /\ WF_vars(\E r \in Loops : Tick(r) /\ UNCHANGED otherVars)
    /\ \A k \in 1..PairJobs :
          WF_vars(\E ok \in BOOLEAN, exit \in BOOLEAN :
                     HandlerSettle(k, ok, exit) /\ UNCHANGED otherVars)
    /\ SF_vars(ProcessExit /\ UNCHANGED otherVars)

SpecGraceful == Init /\ [][GracefulNext]_vars /\ GracefulFairness

\* ------------------------------------------------------- requestWithRetry
\* errorHandler.js: requestWithRetry(fn, { retries, baseDelayMs }).  A call
\* of fn resolves with a value, rejects with an Error that carries the HTTP
\* status of a response (0: the Error has no response), or rejects with
\* null.  Values and errors carry the number of the call that made them.
RetriesInputs == 0..MaxRetries
StatusInputs == {0, 404, 429, 500}
FnOutcomes ==
    {[kind |-> "value", status |-> 0], [kind |-> "null", status |-> 0]}
        \cup {[kind |-> "error", status |-> s] : s \in StatusInputs}

\* status && status < 500 && status !== 429, with status = err?.response?.status
NoRetry(err) == err.status # 0 /\ err.status < 500 /\ err.status # 429
\* baseDelayMs * Math.pow(2, attempt)
Delay(a) == BaseDelayMs * Pow2(a)

\* while (attempt <= retries) with attempt = a: the next call of fn is made,
\* or the loop ends and lastError (e) is thrown
LoopTest(a, e) ==
    IF a <= req.retries
    THEN req' = [req EXCEPT !.pc = "calling", !.attempt = a, !.calls = @ + 1,
                            !.lastError = e]
    ELSE req' = [req EXCEPT !.pc = "thrown", !.attempt = a, !.lastError = e,
                            !.out = e]

\* requestWithRetry(fn, { retries: n }) is called: it runs up to await fn()
RequestWithRetry(n) ==
    /\ req.pc = "idle"
    /\ IF 0 <= n
       THEN req' = [req EXCEPT !.pc = "calling", !.retries = n, !.calls = 1]
       ELSE req' = [req EXCEPT !.pc = "thrown", !.retries = n]
    /\ UNCHANGED <<queueVars, tx, svc>>

\* the promise of fn() settles as o: the value is returned, or the catch
\* block runs up to its await of the delay; reading err.message of null
\* throws a TypeError out of the catch block
FnSettles(o) ==
    /\ req.pc = "calling"
    /\ LET err == [kind |-> o.kind, status |-> o.status, call |-> req.calls] IN
       IF o.kind = "value"
       THEN req' = [req EXCEPT !.pc = "returned", !.out = err]
       ELSE IF NoRetry(err)
       THEN req' = [req EXCEPT !.pc = "thrown", !.lastError = err, !.out = err,
                               !.failures = Append(@, err)]
       ELSE IF o.kind = "null"
       THEN req' = [req EXCEPT !.pc = "thrown", !.lastError = err,
                               !.out = [kind |-> "TypeError", status |-> 0,
                                        call |-> req.calls],
                               !.failures = Append(@, err)]
       ELSE req' = [req EXCEPT !.pc = "sleeping", !.lastError = err,
                               !.delay = Delay(req.attempt),
                               !.failures = Append(@, err)]
    /\ UNCHANGED <<queueVars, tx, svc>>

\* the delay is over: attempt += 1 and the loop tests its condition
DelayOver ==
    /\ req.pc = "sleeping"
    /\ LoopTest(req.attempt + 1, req.lastError)
    /\ UNCHANGED <<queueVars, tx, svc>>

RequestNext ==
    \/ \E n \in RetriesInputs : RequestWithRetry(n)
    \/ \E o \in FnOutcomes : FnSettles(o)
    \/ DelayOver

\* every promise of fn settles and every timer fires
RequestFairness == WF_vars(\E o \in FnOutcomes : FnSettles(o)) /\ WF_vars(DelayOver)

SpecRequest == Init /\ [][RequestNext]_vars /\ RequestFairness

\* -------------------------------------------- the 'transcription' handler
\* queueService.js:247-252: the 'process-job' listener of QueueService.start
\* awaits import('./transcriptionService.js') and then
\* TranscriptionService.processTranscription(job.data.transcriptionId).  The
\* module declares `const transcriptionResult` twice in the try block of
\* processTranscription (lines 20 and 53), so it does not parse: the import
\* rejects with a SyntaxError and no statement of processTranscription runs.
ModuleParses == FALSE

\* the loop emits 'process-job': the listener is called and, for a job of
\* type 'transcription', runs up to its await of the import
ProcessJobListener(r) ==
    /\ AfterGet(r, "none", "async", "none")
    /\ tx' = IF r.job # NoJob /\ Registered(job[r.job].type)
             THEN [tx EXCEPT !.pc = "importing", !.thrown = "none"]
             ELSE tx
    /\ UNCHANGED <<req, svc>>

\* the import settles: the module does not parse, the listener's promise
\* rejects with the SyntaxError and the row is as it was
ImportSettles(k, exit) ==
    /\ tx.pc = "importing"
    /\ ~ModuleParses
    /\ HandlerSettle(k, FALSE, exit)
    /\ tx' = [tx EXCEPT !.pc = "rejected", !.thrown = "SyntaxError"]
    /\ UNCHANGED <<req, svc>>

\* One job of a registered or an unregistered type added to a pool that is
\* started and stopped at will, with the 'process-job' listener of
\* QueueService.start; no other listener throws.
TxNext ==
    \/ /\ \E m \in 1..2, t \in JobTypes, now \in ClockInputs :
             nJobs < 1 /\ AddJob(m, 0, 1, t, now)
       /\ UNCHANGED otherVars
    \/ Start /\ UNCHANGED otherVars
    \/ Stop /\ UNCHANGED otherVars
    \/ \E r \in Loops : Tick(r) /\ UNCHANGED otherVars
    \/ \E r \in Loops : ProcessJobListener(r)
    \/ \E r \in Loops : AfterProcess(r, "none", "none") /\ UNCHANGED otherVars
    \/ \E r \in Loops : AfterComplete(r, "none") /\ UNCHANGED otherVars
    \/ \E k \in JobIx, exit \in BOOLEAN : ImportSettles(k, exit)
    \/ ProcessExit /\ UNCHANGED otherVars

SpecTx == Init /\ [][TxNext]_vars

\* RestartJobs jobs added without delay to a pool of RestartConcurrency
\* loops that is started and stopped at will, from tasks of their own or in
\* the middle of a tick; the 'process-job' listener is async and resolves;
\* no listener throws.
InitRestart == Constructed(RestartConcurrency) /\ QueueOnly

RestartNext ==
    \/ \E now \in ClockInputs :
          nJobs < RestartJobs /\ AddJob(0, 0, nJobs + 1, "transcription", now)
          /\ UNCHANGED otherVars
    \/ Start /\ UNCHANGED otherVars
    \/ Stop /\ UNCHANGED otherVars
    \/ \E r \in Loops : Tick(r) /\ UNCHANGED otherVars
    \/ \E r \in Loops : AfterGet(r, "none", "async", "none") /\ UNCHANGED otherVars
    \/ \E r \in Loops : AfterProcess(r, "none", "none") /\ UNCHANGED otherVars
    \/ \E r \in Loops : AfterComplete(r, "none") /\ UNCHANGED otherVars
    \/ \E k \in JobIx : HandlerSettle(k, TRUE, FALSE) /\ UNCHANGED otherVars

SpecRestart == InitRestart /\ [][RestartNext]_vars

\* ------------------------------------------------------------ QueueService
\* QueueService.addTranscriptionJob(transcriptionId): no id is passed
AddTranscriptionJob(now) == AddJob(3, 0, 0, "transcription", now)

\* QueueService.start(): registers its listeners on the singleton queue,
\* then queue.start()
QueueServiceStart ==
    /\ svc.handlers < MaxStarts
    /\ svc' = [svc EXCEPT !.handlers = @ + 1]
    /\ Start
    /\ UNCHANGED <<req, tx>>

\* QueueService.stop(): queue.stop()
QueueServiceStop == Stop /\ UNCHANGED otherVars

\* SvcJobs transcription jobs added through the QueueService, which is
\* started up to MaxStarts times (the server's start-up, a worker's start, a
\* restart) and stopped at will; the handler resolves or rejects and the
\* process survives a rejection.
SvcNext ==
    \/ \E now \in ClockInputs :
          nJobs < SvcJobs /\ AddTranscriptionJob(now) /\ UNCHANGED otherVars
    \/ QueueServiceStart
    \/ QueueServiceStop
    \/ \E r \in Loops : Tick(r) /\ UNCHANGED otherVars
    \/ \E r \in Loops : AfterGet(r, "none", "async", "none") /\ UNCHANGED otherVars
    \/ \E r \in Loops : AfterProcess(r, "none", "none") /\ UNCHANGED otherVars
    \/ \E r \in Loops : AfterComplete(r, "none") /\ UNCHANGED otherVars
    \/ \E k \in JobIx, ok \in BOOLEAN : HandlerSettle(k, ok, FALSE) /\ UNCHANGED otherVars

SpecSvc == Init /\ [][SvcNext]_vars

\* StopJobs jobs with maxAttempts = 2, with or without a delay, on a pool
\* that is started and stopped at will from tasks of their own; the
\* 'process-job' listener throws an Error or is async and resolves; no other
\* listener throws.  Node runs the pending promise job of the loop that
\* holds a job, some expired poll timer, and every delay and backoff timer.
StopNext ==
    \/ \E d \in DelayInputs, now \in ClockInputs :
          nJobs < StopJobs /\ AddJob(2, d, nJobs + 1, "transcription", now)
          /\ UNCHANGED otherVars
    \/ \E k \in JobIx : AddTimerFire(k, FALSE) /\ UNCHANGED otherVars
    \/ \E k \in JobIx : RetryTimerFire(k) /\ UNCHANGED otherVars
    \/ Quiescent /\ Start /\ UNCHANGED otherVars
    \/ Quiescent /\ Stop /\ UNCHANGED otherVars
    \/ \E r \in Loops : Tick(r) /\ UNCHANGED otherVars
    \/ \E r \in Loops, o \in ErrorListeners : AfterGet(r, "none", o, "none")
          /\ UNCHANGED otherVars
    \/ \E r \in Loops : AfterProcess(r, "none", "none") /\ UNCHANGED otherVars
    \/ \E r \in Loops : AfterComplete(r, "none") /\ UNCHANGED otherVars
    \/ \E r \in Loops : AfterRetry(r, FALSE) /\ UNCHANGED otherVars
    \/ \E k \in JobIx : HandlerSettle(k, TRUE, FALSE) /\ UNCHANGED otherVars

StopFairness ==
    /\ \A k \in 0..StopJobs : WF_vars(\E r \in Loops : r.job = k /\ LoopStep(r))
    /\ WF_vars(\E r \in Loops : Tick(r) /\ UNCHANGED otherVars)
    /\ \A k \in 1..StopJobs :
          /\ SF_vars(AddTimerFire(k, FALSE) /\ UNCHANGED otherVars)
          /\ SF_vars(RetryTimerFire(k) /\ UNCHANGED otherVars)

SpecStop == Init /\ [][StopNext]_vars /\ StopFairness

\* ---------------------------------------------------------- observations
Created == 1..nJobs
\* number of worker loops that hold job k (dequeued it and have not yet
\* scheduled their next poll)
Held(k) == BagCardinality([r \in {x \in Loops : x.job = k} |-> loop[r]])
Published(k, e) == pub[k][e]
Invoked(k) == pub[k]["process-job"]
\* retry events: 'job-retry', which the spec names, or 'job-failed'
RetryEvents(k) == pub[k]["job-retry"] + pub[k]["job-failed"]
\* getStats().queueLength
QueueLength == Len(jobs)
\* job k is nowhere any more: not queued, not waiting for a timer, not held,
\* and no handler invocation for it is running
Ended(k) ==
    /\ dequeued[k] >= 1
    /\ Occurrences(jobs, k) = 0
    /\ k \notin addTimers \cup retryTimers
    /\ Held(k) = 0
    /\ running[k] = 0

\* the failures of job k that retryJob has routed: to a retry or to the
\* permanent failure
Routed(k) == Len(backoffs[k]) + Published(k, "job-failed-permanently")
\* an attempt of job k is in flight: a loop holds the job and has not yet
\* applied the outcome of the attempt, or a handler invocation for the job
\* has not settled
InFlight(k) ==
    \/ \E r \in Loops : r.job = k /\ r.pc \in {"got", "invoked"}
    \/ running[k] > 0
\* no attempt of job k is in flight and every attempt so far got the outcome
\* of its invocation: 'job-completed' for an invocation that returned, the
\* retry or the permanent failure for one that threw or rejected
OutcomeApplied(k) ==
    /\ ~InFlight(k)
    /\ Routed(k) = failed[k]
    /\ Published(k, "job-completed") + Routed(k) = dequeued[k]

\* the jobs eligible for dequeue: those in the jobs list
Eligible == {k \in Created : Occurrences(jobs, k) > 0}
\* the jobs waiting out a delay: the delay of addJob or a retry backoff
PendingDelay == addTimers \cup retryTimers

\* the number of loops asleep until their poll timer fires
Sleeping == BagCardinality([r \in {x \in Loops : x.pc = "timer"} |-> loop[r]])

\* ------------------------------------------------------------------ claims

\* C1: every insertion of a job into the queue is returned by at most one
\* getJob call: the job's dequeues never outnumber its insertions, the list
\* holds exactly the insertions not yet returned, and a job is never held by
\* two loops, nor held while still in the list.
C1_ExactlyOneDispatch ==
    \A k \in Created :
        /\ dequeued[k] <= inserted[k]
        /\ Occurrences(jobs, k) = inserted[k] - dequeued[k]
        /\ Occurrences(jobs, k) + Held(k) <= 1

\* C1 witness: two loops hold the two jobs at the same time.
C1_Witness ==
    /\ nJobs = 2
    /\ Held(1) = 1 /\ Held(2) = 1
    /\ \E r \in Loops : r.job = 1 /\ r.pc = "invoked"
    /\ \E r \in Loops : r.job = 2 /\ r.pc = "invoked"

\* C2 (as claimed): a job (with maxAttempts >= 1) gets at most one of
\* 'job-completed' and 'job-failed-permanently', once, and after either it
\* is not in the queue and not waiting for a retry timer.
C2_TerminalExclusivity ==
    \A k \in {x \in Created : job[x].maxAttempts >= 1} :
        /\ Published(k, "job-completed") + Published(k, "job-failed-permanently") <= 1
        /\ Published(k, "job-completed") + Published(k, "job-failed-permanently") >= 1
              => Occurrences(jobs, k) = 0 /\ k \notin retryTimers

\* C3 (as claimed): a job with maxAttempts = m >= 1 whose handler failed on
\* every invocation ends with m invocations, m - 1 retry events, one
\* 'job-failed-permanently' and no 'job-completed'.
C3_AlwaysFailing ==
    \A k \in Created :
        (Ended(k) /\ job[k].maxAttempts >= 1 /\ Invoked(k) >= 1
            /\ failed[k] = Invoked(k)
            /\ Published(k, "job-processing") = Invoked(k))
        => /\ Invoked(k) = job[k].maxAttempts
           /\ RetryEvents(k) = job[k].maxAttempts - 1
           /\ Published(k, "job-failed-permanently") = 1
           /\ Published(k, "job-completed") = 0

\* C4 (as claimed): a job whose handler failed f < maxAttempts times and then
\* succeeded ends with f retry events, one 'job-completed', f + 1
\* invocations and no 'job-failed-permanently'.
C4_FailsThenSucceeds ==
    \A k \in Created :
        (Ended(k) /\ last[k] = "ok" /\ failed[k] >= 1
            /\ failed[k] < job[k].maxAttempts
            /\ Invoked(k) = failed[k] + 1
            /\ Published(k, "job-processing") = Invoked(k))
        => /\ RetryEvents(k) = failed[k]
           /\ Published(k, "job-completed") = 1
           /\ Published(k, "job-failed-permanently") = 0

\* C5 (as claimed): 'job-completed' is published only for handler
\* invocations that have finished without failure: the completions of a job
\* never outnumber its invocations that have settled successfully.
C5_CompletedOnlyOnSuccess ==
    \A k \in {x \in Created : job[x].maxAttempts >= 1} :
        Published(k, "job-completed") <= Invoked(k) - running[k] - failed[k]

\* C6: every step that schedules a re-enqueue of a job raises its attempts
\* by exactly one and leaves them below maxAttempts; attempts change in no
\* other way, so the value raised is the one the job had when dequeued; and
\* a job waiting for its retry timer has attempts < maxAttempts.
C6_RetryMonotone ==
    [][\A k \in JobIx :
          /\ (k \in retryTimers' /\ k \notin retryTimers)
                => /\ job'[k].attempts = job[k].attempts + 1
                   /\ job'[k].attempts < job'[k].maxAttempts
          /\ (k \in Created /\ job'[k].attempts # job[k].attempts)
                => /\ job'[k].attempts = job[k].attempts + 1
                   /\ Held(k) = 1
                   /\ (k \in retryTimers' \/ job'[k].attempts >= job[k].maxAttempts)
          /\ (k \in retryTimers /\ k \notin retryTimers')
                => job[k].attempts < job[k].maxAttempts]_vars

\* C6 witness: a job waits for its second retry.
C6_Witness ==
    \E k \in Created : k \in retryTimers /\ job[k].attempts = 2

\* C7 (as claimed): every job in the jobs list or waiting for a delay or
\* retry timer has attempts <= maxAttempts.
C7_AttemptsBounded ==
    \A k \in Created :
        (Occurrences(jobs, k) > 0 \/ k \in addTimers \cup retryTimers)
            => job[k].attempts <= job[k].maxAttempts

\* the delay the claim gives for the retry after the n-th failure
ClaimedDelay(n) == IF n <= 4 THEN <<2000, 4000, 8000, 16000>>[n] ELSE 30000

\* C8: the delays computed for a job are 2000, 4000, 8000, 16000 and then
\* 30000 ms, one for each failure that led to a retry and none for the
\* failure that reached maxAttempts; none exceeds 30000 ms; job.delay holds
\* the latest one.
C8_BackoffFormula ==
    \A k \in Created :
        /\ Len(backoffs[k]) = Min(job[k].attempts, job[k].maxAttempts - 1)
        /\ \A n \in 1..Len(backoffs[k]) :
              backoffs[k][n] = ClaimedDelay(n) /\ backoffs[k][n] <= 30000
        /\ Len(backoffs[k]) >= 1 => job[k].delay = backoffs[k][Len(backoffs[k])]

\* C8 witness: maxAttempts = 3 and three failures: 2000 ms, 4000 ms, then
\* the permanent failure with no further delay.
C8_Witness ==
    \E k \in Created :
        /\ job[k].maxAttempts = 3 /\ job[k].attempts = 3
        /\ backoffs[k] = <<2000, 4000>>
        /\ Published(k, "job-failed-permanently") = 1

\* C9: of two jobs added without delay, the one added first is the first to
\* be returned by getJob; while neither has been returned the first added
\* is ahead in the list.
C9_Fifo ==
    \A a \in Created, b \in Created :
        (a < b /\ job[a].delay0 = 0 /\ job[b].delay0 = 0)
        => /\ dequeued[b] >= 1 => dequeued[a] >= 1
           /\ (dequeued[a] = 0 /\ dequeued[b] = 0)
                 => \E i, j \in DOMAIN jobs : i < j /\ jobs[i] = a /\ jobs[j] = b

\* C9 witness: both jobs were added without delay, A has been returned and
\* B is still waiting in the list behind it.
C9_Witness ==
    /\ nJobs = 2
    /\ job[1].delay0 = 0 /\ job[2].delay0 = 0
    /\ dequeued[1] = 1 /\ dequeued[2] = 0
    /\ jobs = <<2>>

\* every job of the pool scenario has been reported completed and the list
\* is empty
PoolDone ==
    /\ \A k \in 1..PoolJobs : Published(k, "job-completed") >= 1
    /\ QueueLength = 0

\* C10: once the PoolJobs jobs are enqueued and the pool runs, eventually
\* every job has been reported completed and getStats().queueLength is 0,
\* and it stays so.
C10_PoolDrains == [](nJobs = PoolJobs /\ isRunning => <>[]PoolDone)

\* C10 witness: the five jobs are done on two loops and the list is empty.
C10_Witness ==
    /\ nJobs = PoolJobs /\ isRunning /\ PoolDone
    /\ BagCardinality(loop) = PoolConcurrency
    /\ \A k \in 1..PoolJobs : running[k] = 0 /\ dequeued[k] = 1

\* C11 (as claimed): stop() leaves the loops that are in the middle of an
\* iteration and the running handler invocations as they are; getJob returns
\* a job only in a step that leaves the pool running (a poll of a running
\* pool, or start()), never while it is stopped; and an attempt that is in
\* flight while the pool is stopped runs to its end and gets its outcome:
\* eventually no attempt of the job is in flight and every attempt has
\* 'job-completed' if its invocation returned and the retry or the permanent
\* failure if it threw or rejected.
C11_GracefulStop ==
    /\ [][(isRunning /\ ~isRunning')
              => (/\ \A r \in Loops : Busy(r) => (r \in Loops' /\ loop'[r] = loop[r])
                  /\ running' = running
                  /\ dequeued' = dequeued /\ jobs' = jobs /\ pub' = pub)]_vars
    /\ [][dequeued' # dequeued => isRunning']_vars
    /\ \A k \in 1..PairJobs : (~isRunning /\ InFlight(k)) ~> OutcomeApplied(k)

\* C12 (as claimed): while the pool runs, the live worker loops (each polls
\* again when its iteration or its timer ends) are at most `concurrency`: no
\* loop of an earlier run is left beside those of the latest start().
C12_CleanRestart == isRunning => BagCardinality(loop) <= concurrency

\* C13: whenever the pool is running, start() yields the state it is called
\* in: isRunning, the worker loops, the jobs list, the processing set and
\* the dequeue counts are what they were.
C13_StartIdempotent ==
    isRunning =>
        /\ StartedIsRunning = isRunning
        /\ StartedLoops = loop
        /\ StartedJobs = jobs
        /\ StartedProcessing = processing
        /\ StartedDequeued = dequeued

\* C13 witness: the pool runs with its loops idle and a job waits in the
\* list, which a start() that started workers again would dequeue.
C13_Witness ==
    /\ isRunning
    /\ BagCardinality(loop) = concurrency
    /\ \A r \in Loops : r.pc = "timer"
    /\ Len(jobs) >= 1

\* C14 (as claimed): a step in which a handler invocation fails (throws
\* inside emit, or its promise rejects) stops no worker loop, and after a
\* failure the process that runs the loops goes on, so that the loops keep
\* polling.
C14_Isolation ==
    /\ [][failed' # failed => BagCardinality(loop') = BagCardinality(loop)]_vars
    /\ []((\E k \in JobIx : failed[k] > 0) => alive)

\* C15 (as claimed): a job of a type without a registered handler, once its
\* first attempt is over, has consumed one attempt, got one
\* 'job-failed-permanently' and no 'job-completed', and was inserted into
\* the list once only.
C15_UnknownTypeFails ==
    \A k \in Created :
        (~Registered(job[k].type) /\ Ended(k))
        => /\ Published(k, "job-failed-permanently") = 1
           /\ Published(k, "job-completed") = 0
           /\ job[k].attempts = 1
           /\ inserted[k] = 1

\* C16 (as claimed): a listener that throws changes nothing for the job:
\* every emission of 'job-processing' is followed in the same step by the
\* handler's 'process-job', and a job is routed to retryJob (attempts
\* raised) only by failures of its handler.
C16_PublishNeverThrows ==
    \A k \in Created :
        /\ Published(k, "process-job") = Published(k, "job-processing")
        /\ job[k].attempts <= failed[k]

\* C17 (as claimed): 'job-added' has been emitted for a job as many times as
\* the job has been inserted into the jobs list, by addJob, by its delay
\* timer or by a retry timer.
C17_JobAddedOnEveryInsert ==
    \A k \in Created : Published(k, "job-added") = inserted[k]

\* C18: addJob with a delay creates the job (its id is there to return) and
\* leaves it to the timer; while the timer is pending the job is not in
\* the list, has not been inserted and has not been returned by getJob;
\* every delay timer fires; and a job that has been inserted is eventually
\* returned by getJob unless the pool is stopped.
C18_DelayedEnqueue ==
    /\ [](\A k \in Created :
            /\ job[k].delay0 > 0 => (k \in addTimers \/ inserted[k] >= 1)
            /\ k \in addTimers
                  => /\ job[k].id = k
                     /\ Occurrences(jobs, k) = 0
                     /\ inserted[k] = 0 /\ dequeued[k] = 0 /\ Held(k) = 0)
    /\ \A k \in 1..DelayJobs :
          /\ (k \in addTimers) ~> (inserted[k] >= 1)
          /\ (inserted[k] >= 1) ~> (dequeued[k] >= 1 \/ ~isRunning)

\* C18 witness: a job added with a delay has been returned by getJob after
\* its timer fired, while the other job still waits for its timer.
C18_Witness ==
    /\ nJobs = 2
    /\ job[1].delay0 > 0 /\ inserted[1] = 1 /\ dequeued[1] = 1
    /\ 2 \in addTimers
    /\ isRunning

\* C19 (as claimed): getStats().queueLength is the number of jobs eligible
\* for dequeue plus the number of jobs waiting out a delay.
C19_QueueLength ==
    QueueLength = Cardinality(Eligible) + Cardinality(PendingDelay)

\* C20 (as claimed): two jobs created by addJob calls that passed no id have
\* different ids, and no step changes the id of a job.
C20_UniqueIds ==
    /\ [](\A a \in Created, b \in Created :
            (a # b /\ job[a].id0 = 0 /\ job[b].id0 = 0) => job[a].id # job[b].id)
    /\ [][\A k \in Created : job'[k].id = job[k].id]_vars

\* C21: a step that inserts a job (addJob, a delay timer, a retry timer)
\* puts it behind every job already in the list; a step that dequeues takes
\* jobs from the front of the list only, each once; no other step changes
\* the list.  So the jobs that were in the list when a delayed or retried
\* job arrived are all returned by getJob before it.
C21_NoJumpAhead ==
    [][/\ \A k \in JobIx : inserted'[k] > inserted[k] => jobs' = Append(jobs, k)
       /\ dequeued' # dequeued
             => \E n \in 1..Len(jobs) :
                   /\ jobs' = SubSeq(jobs, n + 1, Len(jobs))
                   /\ \A k \in JobIx :
                         dequeued'[k] = dequeued[k] + Occurrences(SubSeq(jobs, 1, n), k)
       /\ (inserted' = inserted /\ dequeued' = dequeued) => jobs' = jobs]_vars

\* C21 witness: job 1 failed once and its retry timer has put it back into
\* the list behind job 2, which was waiting there.
C21_Witness ==
    /\ jobs = <<2, 1>>
    /\ job[1].attempts = 1 /\ inserted[1] = 2
    /\ dequeued[2] = 0

\* C22 (as claimed): a loop that finishes handling a job (it held the job
\* before the step and not after) does not go to sleep for a poll interval
\* in that step: the number of loops waiting for a poll timer does not grow.
C22_SleepOnlyWhenEmpty ==
    [][\A k \in Created : (Held(k) = 1 /\ Held(k)' = 0) => Sleeping' <= Sleeping]_vars

\* C23: requestWithRetry calls fn at most retries + 1 times and never again
\* after a failure whose HTTP status is below 500 and not 429; when it
\* returns, it returns the value of the first call of fn that succeeded; when
\* it throws, it throws the error of the last failed call, and it does so
\* after a failure of such a status or when the retries + 1 calls were made.
C23_RetryContract ==
    /\ req.calls <= req.retries + 1
    /\ \A i \in 1..Len(req.failures) :
          i < req.calls
             => ~(/\ req.failures[i].kind = "error"
                  /\ req.failures[i].status \in 1..499 \ {429})
    /\ req.pc = "returned"
          => req.out = [kind |-> "value", status |-> 0, call |-> Len(req.failures) + 1]
    /\ req.pc = "thrown"
          => /\ req.failures # <<>>
             /\ req.out = req.failures[Len(req.failures)]
             /\ \/ req.calls = req.retries + 1
                \/ req.out.kind = "error" /\ req.out.status \in 1..499 \ {429}

\* C24: whenever the 'transcription' handler has thrown, the persisted status
\* of the row is FAILED and an error message is recorded; whenever it has
\* returned normally, the persisted status is COMPLETED.
C24_StatusFollowsOutcome ==
    /\ tx.pc = "rejected" => (tx.status = "FAILED" /\ tx.error_message # "none")
    /\ tx.pc = "returned" => tx.status = "COMPLETED"

\* C25: in every reachable state this.processing holds exactly the ids of
\* the jobs a worker loop has dequeued and not yet completed, scheduled for
\* a retry or failed permanently.
C25_ProcessingExact ==
    processing = {job[k].id : k \in {c \in Created :
                     \E r \in Loops : r.job = c /\ r.pc \in {"got", "invoked"}}}

\* C26: every job accepted by addJob is in exactly one place: waiting on a
\* delay or backoff timer, once in the jobs list, held by one worker loop
\* that has not yet ended its attempt, completed, or failed permanently.
C26_JobConservation ==
    \A k \in Created :
        (IF k \in addTimers THEN 1 ELSE 0) + (IF k \in retryTimers THEN 1 ELSE 0)
          + Occurrences(jobs, k)
          + BagCardinality([r \in {x \in Loops : x.job = k /\ x.pc \in {"got", "invoked"}}
                               |-> loop[r]])
          + Published(k, "job-completed") + Published(k, "job-failed-permanently")
        = 1

\* C27: in every reachable state the number of worker loops that hold a job
\* (they dequeued it and have not yet ended its attempt) is at most
\* `concurrency`.
C27_ConcurrencyBound ==
    BagCardinality([r \in {x \in Loops : x.job # NoJob /\ x.pc \in {"got", "invoked"}}
                       |-> loop[r]]) <= concurrency

\* C28: a step starts at most one invocation of the transcription handler
\* for a job, and it does so by one 'process-job' event for the job that was
\* dequeued, however often QueueService.start() was called.
C28_OneInvocationPerDequeue ==
    [][\A k \in Created :
          running'[k] > running[k]
             => /\ running'[k] = running[k] + 1
                /\ Invoked(k)' = Invoked(k) + 1]_vars

\* C29: a call of stop() on a running pool leaves the jobs list and the
\* pending delay and backoff timers as they are; every pending timer fires
\* and inserts its job, whether the pool runs or not; and a job that is in
\* the list is eventually dequeued unless the pool is stopped.
C29_StopKeepsWork ==
    /\ [][(isRunning /\ ~isRunning')
             => (jobs' = jobs /\ addTimers' = addTimers /\ retryTimers' = retryTimers)]_vars
    /\ \A k \in 1..StopJobs :
          /\ (k \in addTimers) ~> (inserted[k] >= 1)
          /\ \A n \in 0..1 :
                (k \in retryTimers /\ inserted[k] = n) ~> (inserted[k] > n)
          /\ \A n \in 0..1 :
                (Occurrences(jobs, k) >= 1 /\ dequeued[k] = n)
                   ~> (dequeued[k] > n \/ ~isRunning)

\* C29 witness: the pool ran and was stopped; it is stopped while job 1
\* awaits its backoff timer after a failed attempt and job 2, which its
\* delay timer inserted, waits in the list.
C29_Witness ==
    /\ ~isRunning
    /\ dequeued[1] = 1 /\ job[1].attempts = 1 /\ 1 \in retryTimers
    /\ job[2].delay0 > 0 /\ jobs = <<2>>

\* C30: getStats().workers (this.workers.length) never exceeds
\* `concurrency`, and it is 0 whenever the pool is stopped and no worker
\* loop is in the middle of an iteration.
C30_WorkersStat ==
    /\ Len(workers) <= concurrency
    /\ (~isRunning /\ Quiescent) => Len(workers) = 0

====
